---- MODULE Spec2Model ----
(***************************************************************************)
(* Model of github.com/chawld/password (password.go): a Generator built    *)
(* by NewGenerator from options, and Generate calls running on it.  Every  *)
(* call of Random.Get is one step of the calling thread, so that calls of  *)
(* several threads interleave at the draws.                                *)
(*                                                                         *)
(* A uint (64 bits) is written as the integer v with -2^20 < v < 2^20      *)
(* that is congruent to it modulo 2^64: 0, 1, 2, ... are themselves, -1 is *)
(* math.MaxUint = 2^64-1, -2 is 2^64-2.  On these, + and - of integers are *)
(* + and - of uints, wrap-around included (MaxUint + 1 = 0, 0 - 1 =        *)
(* MaxUint), and Lt is the order of uints.  The inputs are the uints near  *)
(* 0 and near 2^64; no operation of the program on them leaves the window. *)
(***************************************************************************)
EXTENDS Integers, Sequences, FiniteSets

\* ------------------------------------------------------------------ bounds
MaxOpts == 2
MaxLen == 3
DrawAll == 8
ConcMaxLen == 2

\* ---------------------------------------------------------- machine values
MaxUint == -1
Add(a, b) == a + b
Sub(a, b) == a - b
\* a < b on uints; a negative integer stands for a uint of at least 2^63
Lt(a, b) == IF (a >= 0) = (b >= 0) THEN a < b ELSE a >= 0
\* make([]rune, n) panics (makeslice: len out of range) on an n that large
TooLarge(n) == n < 0

Threads == {1, 2}
BufIds == 1..3
Nil == 0
NUL == "nul"

\* ------------------------------------------------------------ input domains
SetVals == {<< >>, <<"a", "b">>, <<"b", "c", "c">>}
\* per-set minimums: none, one, two, and the largest uint
MinVals == {0, 1, 2, MaxUint}
\* min and max of Generate: the two smallest, a small one, the largest uint
LenVals == {0, 1, MaxLen, MaxUint}
ConcLenVals == {1, ConcMaxLen}

CharOpts == [kind : {"chars"}, set : SetVals, min : MinVals]
RandomOpts == {[kind |-> "random", set |-> << >>, min |-> 0]}
OptVals == CharOpts \cup RandomOpts
OptSeqs == UNION {[1..n -> OptVals] : n \in 0..MaxOpts}
ConcOptSeqs ==
    { <<[kind |-> "chars", set |-> <<"a", "b">>, min |-> 1]>>,
      <<[kind |-> "chars", set |-> << >>, min |-> 0],
        [kind |-> "chars", set |-> <<"b", "c", "c">>, min |-> 0]>> }

\* ------------------------------------------------------- generator, options
NewG == [charsets |-> << >>, min |-> 0, num |-> 0, random |-> "default"]

WithRandom(gg, r) == [gg EXCEPT !.random = r]

WithCharacters(gg, set, min) ==
    [gg EXCEPT !.charsets = Append(@, [set |-> set, min |-> min]),
               !.min = Add(@, min),
               !.num = Add(@, Len(set))]

ApplyOption(gg, o) ==
    IF o.kind = "random" THEN WithRandom(gg, "custom")
    ELSE WithCharacters(gg, o.set, o.min)

RECURSIVE ApplyOptions(_, _, _)
ApplyOptions(gg, os, j) ==
    IF j > Len(os) THEN gg ELSE ApplyOptions(ApplyOption(gg, os[j]), os, j + 1)

NoCharactersCheck(gg) == IF gg.num = 0 THEN "NoCharactersErr" ELSE "nil"

VARIABLES
    opts,      \* the options handed to NewGenerator
    callers,   \* the threads that call Generate
    args,      \* the lengths the callers pass as min and max
    built,     \* "new" before NewGenerator, then "ok" or "NoCharactersErr"
    g,         \* the generator: charsets, min, num, random
    th,        \* per thread: the frame of its Generate call
    heap       \* the backing arrays of the slices Generate allocates

vars == <<opts, callers, args, built, g, th, heap>>

FreeBuf == [used |-> FALSE, data |-> << >>, cap |-> 0]
NoRet == [pw |-> Nil, err |-> "nil"]
NoDraw == [site |-> "none", bound |-> 0, kind |-> "none", val |-> 0]
\* A frame holds the locals of one Generate call (pc, min, max, emin: min after
\* the clamp, length, chars: the slice being built, s: the set of the minimum
\* phase, i: the loop index, newChars) and what the call has done so far
\* (lenk: the value getRandomLength drew,
\* log: the bound and outcome of every Get, last: the last Get with its value,
\* prev: chars before the last Get, chars0: chars as handed to shuffle,
\* ks: the values shuffle drew), and ret, what Generate returned.
IdleFrame ==
    [pc |-> "idle", min |-> 0, max |-> 0, emin |-> 0, length |-> 0,
     chars |-> Nil, s |-> 0, i |-> 0, newChars |-> << >>, lenk |-> 0,
     log |-> << >>, last |-> NoDraw, prev |-> << >>,
     chars0 |-> << >>, shuffled |-> FALSE, ks |-> << >>, ret |-> NoRet]

\* ------------------------------------------------------------------- slices
\* make returns a backing array no live slice uses: the lowest free one.
AllocShared(H) == 1
Alloc(H) ==
    CHOOSE id \in BufIds :
        /\ ~H[id].used
        /\ \A j \in BufIds : j < id => H[j].used

Make(H, id, cap) == [H EXCEPT ![id] = [used |-> TRUE, data |-> << >>, cap |-> cap]]
Free(H, id) == IF id = Nil THEN H ELSE [H EXCEPT ![id] = FreeBuf]

\* chars = append(chars, xs...): in place while the capacity lasts, else into
\* a new backing array.
AppendChars(L, H, xs) ==
    LET b == H[L.chars] IN
    IF Len(b.data) + Len(xs) <= b.cap
    THEN [l |-> L, h |-> [H EXCEPT ![L.chars].data = @ \o xs]]
    ELSE LET id == Alloc(H) IN
         [l |-> [L EXCEPT !.chars = id],
          h |-> [Free(H, L.chars) EXCEPT
                    ![id] = [used |-> TRUE, data |-> b.data \o xs,
                             cap |-> Len(b.data) + Len(xs)]]]

\* ------------------------------------------------- how a Generate call ends
\* A run-time panic (index out of range, makeslice: len out of range, or the
\* panic of crypto/rand's Int on a bound <= 0): Generate returns nothing.
Panic(L, H) ==
    [l |-> [L EXCEPT !.pc = "panic", !.chars = Nil, !.s = 0, !.i = 0,
                     !.newChars = << >>],
     h |-> Free(H, L.chars)]

\* return nil, err
ReturnErr(L, H, e) ==
    [l |-> [L EXCEPT !.pc = "done", !.ret = [pw |-> Nil, err |-> e],
                     !.chars = Nil, !.s = 0, !.i = 0, !.newChars = << >>],
     h |-> Free(H, L.chars)]

\* return chars, nil
ReturnChars(L, H) ==
    [l |-> [L EXCEPT !.pc = "done", !.ret = [pw |-> L.chars, err |-> "nil"],
                     !.s = 0, !.i = 0, !.newChars = << >>],
     h |-> H]

\* ------------------------------------------------------------------ shuffle
SwapIndexNoOffset(i, k) == k
\* the index i+k of chars[i], chars[i+k] = chars[i+k], chars[i]
SwapIndex(i, k) == Add(i, k)

Swap(data, i, j) == [data EXCEPT ![i + 1] = data[j + 1], ![j + 1] = data[i + 1]]

\* the loop condition i < n-1 of shuffle, n-1 in uint arithmetic
ShuffleGuard(n, i) == Lt(i, Sub(n, 1))

\* shuffle's loop head: the next Get, or return nil and Generate returns chars
ShuffleLoop(L, H) ==
    IF ShuffleGuard(Len(H[L.chars].data), L.i)
    THEN [l |-> [L EXCEPT !.pc = "shuffle"], h |-> H]
    ELSE ReturnChars([L EXCEPT !.shuffled = TRUE], H)

EnterShuffle(L, H) ==
    ShuffleLoop([L EXCEPT !.i = 0, !.s = 0, !.newChars = << >>,
                          !.chars0 = H[L.chars].data, !.ks = << >>], H)

\* the body of shuffle's loop after Get returned k
ShuffleStep(L, H, k) ==
    LET n == Len(H[L.chars].data)
        j == SwapIndex(L.i, k)
    IN  IF ~Lt(L.i, n) \/ ~Lt(j, n)
        THEN Panic([L EXCEPT !.ks = Append(@, k)], H)
        ELSE ShuffleLoop([L EXCEPT !.i = Add(@, 1), !.ks = Append(@, k)],
                         [H EXCEPT ![L.chars].data = Swap(@, L.i, j)])

\* --------------------------------------------------------------- uniform fill
RECURSIVE PoolCharNoSubtract(_, _, _)
PoolCharNoSubtract(cs, k, j) ==
    IF j > Len(cs) THEN << >>
    ELSE IF Lt(k, Len(cs[j].set)) THEN <<cs[j].set[k + 1]>>
    ELSE PoolCharNoSubtract(cs, k, j + 1)

\* the inner loop of the fill phase: what index k of the pool appends
RECURSIVE PoolChar(_, _, _)
PoolChar(cs, k, j) ==
    IF j > Len(cs) THEN << >>
    ELSE IF Lt(k, Len(cs[j].set)) THEN <<cs[j].set[k + 1]>>
    ELSE PoolChar(cs, Sub(k, Len(cs[j].set)), j + 1)

\* the fill loop's head, i < n-g.min in uint arithmetic
FillLoop(L, H) ==
    IF Lt(L.i, Sub(L.length, g.min))
    THEN [l |-> [L EXCEPT !.pc = "fill"], h |-> H]
    ELSE EnterShuffle(L, H)

FillStep(L, H, k) ==
    LET r == AppendChars(L, H, PoolChar(g.charsets, k, 1)) IN
    FillLoop([r.l EXCEPT !.i = Add(@, 1)], r.h)

\* ------------------------------------------------------ minimum satisfaction
MinCountOneLess(c) == IF c.min = 0 THEN 0 ELSE Sub(c.min, 1)
\* the number of characters getRandomChars(g.random, c.set, c.min) draws
MinCount(c) == c.min

\* the loop over g.charsets from set s on: make([]rune, c.min), then the first
\* Get of the set, or the append of an empty slice and the next set
RECURSIVE MinPhase(_, _, _)
MinPhase(L, H, s) ==
    IF s > Len(g.charsets)
    THEN FillLoop([L EXCEPT !.i = 0, !.s = 0, !.newChars = << >>], H)
    ELSE LET c == g.charsets[s] IN
         IF TooLarge(MinCount(c)) THEN Panic(L, H)
         ELSE IF Lt(0, MinCount(c))
         THEN [l |-> [L EXCEPT !.pc = "min", !.s = s, !.i = 0,
                               !.newChars = [x \in 1..MinCount(c) |-> NUL]],
               h |-> H]
         ELSE LET r == AppendChars(L, H, << >>) IN MinPhase(r.l, r.h, s + 1)

\* chars[i] = from[k], then the next Get of this set or the append
MinStep(L, H, k) ==
    LET c == g.charsets[L.s] IN
    IF ~Lt(k, Len(c.set)) THEN Panic(L, H)
    ELSE LET nc == [L.newChars EXCEPT ![L.i + 1] = c.set[k + 1]]
             i2 == Add(L.i, 1)
         IN  IF Lt(i2, MinCount(c))
             THEN [l |-> [L EXCEPT !.newChars = nc, !.i = i2], h |-> H]
             ELSE LET r == AppendChars(L, H, nc) IN MinPhase(r.l, r.h, L.s + 1)

\* g.getRandomChars(length) up to its first Get: chars := make([]rune, 0, n)
getRandomChars(L, H) ==
    IF TooLarge(L.length) THEN Panic(L, H)
    ELSE LET id == Alloc(H) IN
         MinPhase([L EXCEPT !.chars = id], Make(H, id, L.length), 1)

\* return length + min, nil; then Generate goes on to getRandomChars
LengthStep(L, H, k) ==
    getRandomChars([L EXCEPT !.length = Add(k, L.emin), !.lenk = k], H)

\* ---------------------------------------------------------- getRandomLength
InvalidLength(gg, min, max) == Lt(max, min) \/ Lt(max, gg.min)

ClampKeepsMin(gg, min) == min
Clamp(gg, min) == IF Lt(min, gg.min) THEN gg.min ELSE min

\* max - min + 1
LengthBound(min, max) == Add(Sub(max, min), 1)

\* ---------------------------------------------------------------- Random.Get
\* The values a Get(max) that keeps the contract may return: all of them for a
\* max up to DrawAll, the smallest and the largest for a larger one.
DrawVals(max) == IF 0 <= max /\ max <= DrawAll THEN 0..(max - 1) ELSE {0, max - 1}

Val(k) == [kind |-> "val", val |-> k]
Err == [kind |-> "err", val |-> 0]
Panicked == [kind |-> "panic", val |-> 0]

\* random.Get: rand.Int panics when int64(max) <= 0 (max = 0 or max >= 2^63),
\* else it returns a value or an error.
\* A caller's Random: a value below max or an error; on max = 0 the contract
\* promises nothing, and it returns an error or any value.
RandomGet(r, max) ==
    IF r = "default"
    THEN IF max <= 0
         THEN {Panicked}
         ELSE {Err} \cup {Val(k) : k \in DrawVals(max)}
    ELSE IF max = 0
         THEN {Err, Val(0), Val(1)}
         ELSE {Err} \cup {Val(k) : k \in DrawVals(max)}

\* ------------------------------------------------------------------- actions
Data(t) == heap[th[t].chars].data
Password(t) == heap[th[t].ret.pw].data

\* The bound the thread's pending Get is called with.
GetBound(L) ==
    CASE L.pc = "len" -> LengthBound(L.emin, L.max)
      [] L.pc = "min" -> Len(g.charsets[L.s].set)
      [] L.pc = "fill" -> g.num
      [] L.pc = "shuffle" -> Sub(Len(heap[L.chars].data), L.i)
      [] OTHER -> 0

InitCommon ==
    /\ built = "new"
    /\ g = NewG
    /\ th = [t \in callers |-> IdleFrame]
    /\ heap = [id \in BufIds |-> FreeBuf]

\* One caller, every option list and every length.
Init ==
    /\ opts \in OptSeqs
    /\ callers = {1}
    /\ args = LenVals
    /\ InitCommon

\* Two callers on one generator, a few option lists and small lengths.
InitConc ==
    /\ opts \in ConcOptSeqs
    /\ callers = Threads
    /\ args = ConcLenVals
    /\ InitCommon

\* NewGenerator(opts...)
NewGenerator ==
    /\ built = "new"
    /\ LET gg == ApplyOptions(NewG, opts, 1)
           e == NoCharactersCheck(gg)
       IN  /\ built' = IF e = "nil" THEN "ok" ELSE e
           /\ g' = IF e = "nil" THEN gg ELSE NewG
    /\ UNCHANGED <<opts, callers, args, th, heap>>

\* g.Generate(min, max) up to the Get of getRandomLength, or to its return of
\* InvalidLengthErr.
Generate(t, min, max) ==
    /\ built = "ok"
    /\ t \in callers
    /\ th[t].pc = "idle"
    /\ LET L == [IdleFrame EXCEPT !.min = min, !.max = max]
           r == IF InvalidLength(g, min, max)
                THEN ReturnErr(L, heap, "InvalidLengthErr")
                ELSE [l |-> [L EXCEPT !.pc = "len", !.emin = Clamp(g, min)],
                      h |-> heap]
       IN  /\ th' = [th EXCEPT ![t] = r.l]
           /\ heap' = r.h
    /\ UNCHANGED <<opts, callers, args, built, g>>

\* The code that follows a Get that returned k, by the site of the Get.
AfterGet(L, H, k) ==
    CASE L.pc = "len" -> LengthStep(L, H, k)
      [] L.pc = "min" -> MinStep(L, H, k)
      [] L.pc = "fill" -> FillStep(L, H, k)
      [] L.pc = "shuffle" -> ShuffleStep(L, H, k)

\* One Get of thread t at the given site, and the code that follows it up to
\* the next Get or to the end of Generate.
Draw(t, site) ==
    /\ th[t].pc = site
    /\ LET bound == GetBound(th[t]) IN
       \E o \in RandomGet(g.random, bound) :
          LET L == [th[t] EXCEPT
                      !.log = Append(@, [site |-> site, bound |-> bound,
                                         kind |-> o.kind]),
                      !.last = [site |-> site, bound |-> bound,
                                kind |-> o.kind, val |-> o.val],
                      !.prev = IF th[t].chars = Nil THEN << >>
                               ELSE heap[th[t].chars].data]
              r == IF o.kind = "panic" THEN Panic(L, heap)
                   ELSE IF o.kind = "err" THEN ReturnErr(L, heap, "ProviderErr")
                   ELSE AfterGet(L, heap, o.val)
          IN  /\ th' = [th EXCEPT ![t] = r.l]
              /\ heap' = r.h
    /\ UNCHANGED <<opts, callers, args, built, g>>

LengthDraw(t) == Draw(t, "len")
MinDraw(t) == Draw(t, "min")
FillDraw(t) == Draw(t, "fill")
ShuffleDraw(t) == Draw(t, "shuffle")

\* The caller is done with what Generate returned (or recovered from its
\* panic) and may call again.
Return(t) ==
    /\ th[t].pc \in {"done", "panic"}
    /\ th' = [th EXCEPT ![t] = IdleFrame]
    /\ heap' = Free(heap, th[t].ret.pw)
    /\ UNCHANGED <<opts, callers, args, built, g>>

Next ==
    \/ NewGenerator
    \/ \E t \in callers : \E min \in args : \E max \in args : Generate(t, min, max)
    \/ \E t \in callers : LengthDraw(t)
    \/ \E t \in callers : MinDraw(t)
    \/ \E t \in callers : FillDraw(t)
    \/ \E t \in callers : ShuffleDraw(t)
    \/ \E t \in callers : Return(t)

Spec == Init /\ [][Next]_vars
SpecConc == InitConc /\ [][Next]_vars

\* ------------------------------------------------- vocabulary of the claims
Range(seq) == {seq[j] : j \in DOMAIN seq}
Count(seq, S) == Cardinality({j \in DOMAIN seq : seq[j] \in S})
Occurrences(seq, c) == Count(seq, {c})
SameMultiset(a, b) ==
    /\ Len(a) = Len(b)
    /\ \A c \in Range(a) \cup Range(b) : Occurrences(a, c) = Occurrences(b, c)
Distinct(seq) == \A j1, j2 \in DOMAIN seq : seq[j1] = seq[j2] => j1 = j2

Succeeded(t) == th[t].pc = "done" /\ th[t].ret.err = "nil"
Failed(t) == th[t].pc = "done" /\ th[t].ret.err # "nil"
\* the call reached shuffle(g.random, chars)
EnteredShuffle(t) ==
    th[t].pc = "shuffle" \/ th[t].shuffled \/ th[t].last.site = "shuffle"
SiteLog(t, site) == SelectSeq(th[t].log, LAMBDA e : e.site = site)

UMax(a, b) == IF Lt(a, b) THEN b ELSE a

\* Natural numbers up to a few times 2^64, as hi * 2^64 + lo: the number a
\* uint stands for, and the sum of the registered minimums as a number.
Carry(v) == IF v < 0 THEN 1 ELSE 0
AsNat(v) == [hi |-> Carry(v), lo |-> v]
NatLt(a, b) == a.hi < b.hi \/ (a.hi = b.hi /\ a.lo < b.lo)
RECURSIVE SumOfMins(_, _)
SumOfMins(os, j) ==
    IF j > Len(os) THEN [hi |-> 0, lo |-> 0]
    ELSE LET r == SumOfMins(os, j + 1) IN
         IF os[j].kind = "chars"
         THEN [hi |-> r.hi + Carry(os[j].min), lo |-> r.lo + os[j].min]
         ELSE r
RECURSIVE SumOfSizes(_, _)
SumOfSizes(os, j) ==
    IF j > Len(os) THEN 0
    ELSE SumOfSizes(os, j + 1) + (IF os[j].kind = "chars" THEN Len(os[j].set) ELSE 0)
RegisteredSets(os) ==
    LET cs == SelectSeq(os, LAMBDA o : o.kind = "chars") IN
    [j \in DOMAIN cs |-> [set |-> cs[j].set, min |-> cs[j].min]]

\* all registered sets, one after the other
RECURSIVE Pool(_, _)
Pool(cs, j) == IF j > Len(cs) THEN << >> ELSE cs[j].set \o Pool(cs, j + 1)

\* ------------------------------------------------------------------------ C1
\* C1: a password Generate returns holds, for every registered set, at least
\* that set's minimum of characters that are members of the set.
MinimumsMet ==
    \A t \in callers :
        Succeeded(t) =>
            \A s \in DOMAIN g.charsets :
                ~Lt(Count(Password(t), Range(g.charsets[s].set)), g.charsets[s].min)

\* a returned password of a generator with two sets of minimum 1, longer than
\* the minimums ask for, and not in the order it was built in
MinimumsMetWitness ==
    \E t \in callers :
        /\ Succeeded(t)
        /\ Len(g.charsets) = 2
        /\ \A s \in DOMAIN g.charsets : g.charsets[s].min = 1
        /\ Len(Password(t)) > 2
        /\ Password(t) # th[t].chars0

\* ------------------------------------------------------------------------ C2
\* C2: the password of a successful Generate(min, max) is as long as
\* getRandomLength chose, effectiveMin + the first draw with effectiveMin =
\* max(min, g.min), and max(min, g.min) <= len(password) <= max.
LengthChosen ==
    \A t \in callers :
        Succeeded(t) =>
            LET L == th[t]
                e == UMax(L.min, g.min)
            IN  /\ Len(Password(t)) = L.length
                /\ AsNat(g.min) = SumOfMins(opts, 1)
                /\ L.emin = e
                /\ AsNat(L.length) = [hi |-> Carry(e) + Carry(L.lenk), lo |-> e + L.lenk]
                /\ ~Lt(Len(Password(t)), e)
                /\ ~Lt(L.max, Len(Password(t)))

\* a success where the clamp raised min to g.min and the draw was not 0
LengthChosenWitness ==
    \E t \in callers :
        /\ Succeeded(t)
        /\ Lt(th[t].min, g.min)
        /\ th[t].lenk > 0
        /\ Len(Password(t)) = g.min + th[t].lenk

\* ------------------------------------------------------------------------ C3
\* C3: Generate(min, max) with max < min or max < the sum of all per-set
\* minimums returns InvalidLengthErr and no password, and never calls Get.
InvalidLengthRejected ==
    \A t \in callers :
        (/\ th[t].pc # "idle"
         /\ \/ Lt(th[t].max, th[t].min)
            \/ NatLt(AsNat(th[t].max), SumOfMins(opts, 1)))
        => /\ th[t].pc = "done"
           /\ th[t].ret = [pw |-> Nil, err |-> "InvalidLengthErr"]
           /\ th[t].log = << >>

\* The same with g.min, the sum as NewGenerator computed it in a uint, in the
\* place of the sum: this much the code does.
InvalidLengthRejectedByGMin ==
    \A t \in callers :
        (th[t].pc # "idle" /\ (Lt(th[t].max, th[t].min) \/ Lt(th[t].max, g.min)))
        => /\ th[t].pc = "done"
           /\ th[t].ret = [pw |-> Nil, err |-> "InvalidLengthErr"]
           /\ th[t].log = << >>

\* ------------------------------------------------------------------------ C4
\* C4: NewGenerator returns NoCharactersErr exactly when the sizes of the
\* registered sets sum to 0; otherwise it returns a generator whose min is
\* the sum of the registered minimums and whose num is the sum of the sizes.
NewGeneratorResult ==
    built # "new" =>
        /\ built = "NoCharactersErr" <=> SumOfSizes(opts, 1) = 0
        /\ built = "ok" =>
              /\ g.charsets = RegisteredSets(opts)
              /\ AsNat(g.min) = SumOfMins(opts, 1)
              /\ g.num = SumOfSizes(opts, 1)

\* All of C4 but the sum of the minimums, which holds modulo 2^64 only.
NewGeneratorResultModulo ==
    built # "new" =>
        /\ built = "NoCharactersErr" <=> SumOfSizes(opts, 1) = 0
        /\ built = "ok" =>
              /\ g.charsets = RegisteredSets(opts)
              /\ g.min = SumOfMins(opts, 1).lo
              /\ g.num = SumOfSizes(opts, 1)

\* ------------------------------------------------------------------------ C5
\* C5: after a Get that returned an error the call makes no further Get and
\* Generate returns that error and nil; every Generate call ends with a
\* complete password and no error, or with an error and no password.
ErrorOrPassword ==
    \A t \in callers :
        /\ \A j \in DOMAIN th[t].log :
              th[t].log[j].kind = "err" =>
                  /\ j = Len(th[t].log)
                  /\ th[t].pc = "done"
                  /\ th[t].ret = [pw |-> Nil, err |-> "ProviderErr"]
        /\ th[t].pc \in {"done", "panic"} =>
              \/ /\ Succeeded(t)
                 /\ th[t].ret.pw # Nil
                 /\ Len(Password(t)) = th[t].length
                 /\ th[t].shuffled
              \/ /\ Failed(t)
                 /\ th[t].ret.pw = Nil

\* The part of C5 about the calls that return: this much the code does.
ErrorOrPasswordWhenReturned ==
    \A t \in callers :
        /\ \A j \in DOMAIN th[t].log :
              th[t].log[j].kind = "err" =>
                  /\ j = Len(th[t].log)
                  /\ th[t].pc = "done"
                  /\ th[t].ret = [pw |-> Nil, err |-> "ProviderErr"]
        /\ th[t].pc = "done" =>
              \/ /\ Succeeded(t)
                 /\ th[t].ret.pw # Nil
                 /\ Len(Password(t)) = th[t].length
                 /\ th[t].shuffled
              \/ /\ Failed(t)
                 /\ th[t].ret.pw = Nil

\* ------------------------------------------------------------------------ C6
\* C6: no Generate call, succeeding or failing, alone or interleaved with the
\* calls of other threads, changes the generator's charsets, min and num, and
\* the password a call returned is a slice no other call writes to.
ConfigurationKept == built = "ok" => g' = g
OwnSlices ==
    \A t1, t2 \in callers :
        (t1 # t2 /\ th[t1].chars # Nil) => th[t1].chars # th[t2].chars
ReturnedUntouched ==
    \A t \in callers :
        (Succeeded(t) /\ th'[t] = th[t]) => heap'[th[t].ret.pw] = heap[th[t].ret.pw]
GenerateKeepsConfiguration ==
    /\ [][ConfigurationKept]_vars
    /\ []OwnSlices
    /\ [][ReturnedUntouched]_vars

\* two calls on the one generator hold a returned password each, of two
\* characters, and the two differ
BothReturnedWitness ==
    /\ \A t \in Threads : t \in callers /\ Succeeded(t) /\ Len(Password(t)) = 2
    /\ Password(1) # Password(2)

\* ------------------------------------------------------------------------ C7
\* C7: shuffle of an empty or one-element sequence calls no Get, leaves the
\* sequence as it is and returns no error; Generate(0, 0) on a generator
\* whose minimums sum to 0 returns the empty password and no error.
TrivialShuffleIsNoOp ==
    \A t \in callers :
        /\ (EnteredShuffle(t) /\ Len(th[t].chars0) <= 1) =>
              /\ Succeeded(t)
              /\ Password(t) = th[t].chars0
              /\ SiteLog(t, "shuffle") = << >>
        /\ (/\ th[t].pc \in {"done", "panic"}
            /\ th[t].min = 0 /\ th[t].max = 0
            /\ SumOfMins(opts, 1) = [hi |-> 0, lo |-> 0]
            /\ \A j \in DOMAIN th[t].log : th[t].log[j].kind = "val") =>
              /\ Succeeded(t)
              /\ Password(t) = << >>

\* The one-element half of C7: this much the code does.
OneElementShuffleIsNoOp ==
    \A t \in callers :
        (EnteredShuffle(t) /\ Len(th[t].chars0) = 1) =>
            /\ Succeeded(t)
            /\ Password(t) = th[t].chars0
            /\ SiteLog(t, "shuffle") = << >>

\* ------------------------------------------------------------------------ C8
\* C8: every Get the generator calls is given a bound greater than 0.
BoundsPositive ==
    \A t \in callers :
        /\ \A j \in DOMAIN th[t].log : th[t].log[j].bound # 0
        /\ th[t].pc \in {"len", "min", "fill", "shuffle"} => GetBound(th[t]) # 0

\* ------------------------------------------------------------------------ C9
\* the draw sequences of a shuffle of n elements: n-1 draws, draw i below n-i
DrawSeqs(n) == {ks \in [1..(n - 1) -> 0..(n - 1)] : \A j \in 1..(n - 1) : ks[j] <= n - j}
\* the orderings of a sequence
Orderings(seq) ==
    {[j \in DOMAIN seq |-> seq[f[j]]] :
        f \in {h \in [DOMAIN seq -> DOMAIN seq] : \A a, b \in DOMAIN seq : h[a] = h[b] => a = b}}

\* shuffle as a function of the sequence and the values drawn
RECURSIVE shuffle(_, _, _)
shuffle(chars, ks, i) ==
    IF ~ShuffleGuard(Len(chars), i) THEN chars
    ELSE shuffle(Swap(chars, i, SwapIndex(i, ks[i + 1])), ks, Add(i, 1))

\* C9: shuffle of n >= 2 elements draws n-1 times, draw i with span n-i, and
\* swaps position i with position i+k; its result is a permutation of its
\* input; on n distinct elements the draw sequences and the orderings of the
\* input correspond one to one.
ShufflePermutes ==
    \A t \in callers :
        LET L == th[t]
            n == Len(L.chars0)
            sl == SiteLog(t, "shuffle")
        IN  (EnteredShuffle(t) /\ n >= 2) =>
              /\ Len(sl) <= n - 1
              /\ \A j \in DOMAIN sl : sl[j].bound = n - (j - 1)
              /\ (L.last.site = "shuffle" /\ L.last.kind = "val") =>
                    /\ L.pc # "panic"
                    /\ Data(t) = Swap(L.prev, Len(L.ks) - 1, Len(L.ks) - 1 + L.last.val)
              /\ Succeeded(t) =>
                    /\ Len(sl) = n - 1
                    /\ Len(L.ks) = n - 1
                    /\ SameMultiset(Password(t), L.chars0)
                    /\ Password(t) = shuffle(L.chars0, L.ks, 0)
                    /\ Distinct(L.chars0) =>
                          /\ \A ks \in DrawSeqs(n) :
                                shuffle(L.chars0, ks, 0) = Password(t) => ks = L.ks
                          /\ \A p \in Orderings(L.chars0) :
                                \E ks \in DrawSeqs(n) : shuffle(L.chars0, ks, 0) = p

\* a shuffle of three distinct characters that returned them reversed
ShufflePermutesWitness ==
    \E t \in callers :
        /\ Succeeded(t)
        /\ th[t].chars0 = <<"a", "b", "c">>
        /\ Password(t) = <<"c", "b", "a">>

\* ----------------------------------------------------------------------- C10
\* the minimum phase's part of chars: for every set in registration order,
\* min characters of that set
RECURSIVE GroupedBySet(_, _, _, _)
GroupedBySet(chars, cs, s, off) ==
    IF s > Len(cs) THEN TRUE
    ELSE /\ off + cs[s].min <= Len(chars)
         /\ \A j \in (off + 1)..(off + cs[s].min) : chars[j] \in Range(cs[s].set)
         /\ GroupedBySet(chars, cs, s + 1, off + cs[s].min)

\* C10: a fill draw k below g.num appends exactly one character, the k-th of
\* the registered sets laid end to end; the fill phase draws length - g.min
\* times, and shuffle is handed length characters, the g.min characters of
\* the minimum phase first, grouped by set in registration order.
FillTakesPoolChar ==
    \A t \in callers :
        LET L == th[t] IN
        /\ (L.last.site = "fill" /\ L.last.kind = "val" /\ Lt(L.last.val, g.num)) =>
              /\ L.pc # "panic"
              /\ Data(t) = Append(L.prev, Pool(g.charsets, 1)[L.last.val + 1])
        /\ EnteredShuffle(t) =>
              /\ AsNat(g.min) = SumOfMins(opts, 1)
              /\ Len(L.chars0) = L.length
              /\ Len(SiteLog(t, "fill")) = L.length - g.min
              /\ GroupedBySet(L.chars0, g.charsets, 1, 0)

\* shuffle was handed a minimum-phase character and two fill characters drawn
\* behind an empty set and out of a set with a duplicate
FillTakesPoolCharWitness ==
    \E t \in callers :
        /\ EnteredShuffle(t)
        /\ Len(g.charsets) = 2
        /\ g.charsets[1].set = << >>
        /\ g.charsets[2] = [set |-> <<"b", "c", "c">>, min |-> 1]
        /\ Len(th[t].chars0) = 3
        /\ th[t].last.site = "fill"
        /\ th[t].last.val = 2
        /\ th[t].chars0[3] = "c"

====
